---- MODULE Spec2Model ----
(***************************************************************************)
(* Geekworm X708 UPS HAT sensor platform                                   *)
(* (custom_components/GeekwormUPS/sensor.py).                              *)
(*                                                                         *)
(* The model covers the platform setup (async_setup_platform, _setup_UPS), *)
(* the register reader (UPS.get_sensor_data), the polling handler          *)
(* (UPSHandler.update) and the two entities' async_update, each of which   *)
(* runs the shared handler's update on an executor worker.                 *)
(*                                                                         *)
(* Python values are records tagged with their type, so that None, False,  *)
(* a float and a 1-tuple holding a float are different values.  Floats are *)
(* exact rationals in lowest terms.                                        *)
(*                                                                         *)
(* Lines 154-155 of the file (the `elif` of UPSSensor.icon) do not parse;  *)
(* icon is not modelled, and the rest of the file is taken as written.     *)
(***************************************************************************)
EXTENDS Integers, Sequences, FiniteSets, TLC

\* ------------------------------------------------------------------ bounds

\* Updates each entity runs after setup.
MaxPolls == 3

\* Largest word of struct's 'H' format (unsigned 16 bit).
MaxWord == 65535

\* Words the device answers a register read with in Spec: zero, and 0x8032,
\* which swaps to 0x3280 = 12928 counts: 1.01 V at offset 2, 50.5 % at
\* offset 4.  SpecDecode covers every word.
RawWords == {0, 32818}

SENSOR_VOLTAGE == "voltage"
SENSOR_CAPACITY == "capacity"
SENSOR_TYPES == {SENSOR_VOLTAGE, SENSOR_CAPACITY}

Threads == {"setup"} \cup SENSOR_TYPES

\* ----------------------------------------------------------- Python values

PyNone == [type |-> "NoneType"]
PyBool(b) == [type |-> "bool", val |-> b]
PyInt(n) == [type |-> "int", int |-> n]
PyTuple1(x) == [type |-> "tuple", items |-> <<x>>]

RECURSIVE GCD(_, _)
GCD(a, b) == IF b = 0 THEN a ELSE GCD(b, a % b)

\* The float n/d (n >= 0, d > 0), in lowest terms.
PyFloat(n, d) ==
    LET g == GCD(n, d)
    IN  [type |-> "float", num |-> n \div g, den |-> d \div g]

\* float * float and float / float; an int operand is promoted first.
AsFloat(v) == IF v.type = "int" THEN PyFloat(v.int, 1) ELSE v
PyMul(a, b) == PyFloat(AsFloat(a).num * AsFloat(b).num, AsFloat(a).den * AsFloat(b).den)
PyDiv(a, b) == PyFloat(AsFloat(a).num * AsFloat(b).den, AsFloat(a).den * AsFloat(b).num)

\* bool(v): what `if not v` tests.
Truthy(v) ==
    CASE v.type = "NoneType" -> FALSE
      [] v.type = "bool" -> v.val
      [] v.type = "int" -> v.int # 0
      [] v.type = "float" -> v.num # 0
      [] v.type = "tuple" -> Len(v.items) > 0

\* Nearest integer to n/d, a tie going to the even one (Python 3's round).
RoundHalfEven(n, d) ==
    LET q == n \div d
        r == n % d
    IN  IF 2 * r < d THEN q
        ELSE IF 2 * r > d THEN q + 1
        ELSE IF q % 2 = 0 THEN q ELSE q + 1

PyTypeError == [type |-> "TypeError"]

\* round(v): an int for a float; a tuple or None has no __round__.
PyRound(v) ==
    IF v.type = "float" THEN PyInt(RoundHalfEven(v.num, v.den))
    ELSE IF v.type = "int" THEN v
    ELSE PyTypeError

\* round(v, 2): a float with at most two decimals (computed on the exact
\* rational); a tuple or None has no __round__.
PyRound2(v) ==
    IF v.type \in {"float", "int"}
    THEN PyFloat(RoundHalfEven(AsFloat(v).num * 100, AsFloat(v).den), 100)
    ELSE PyTypeError

\* ------------------------------------------------------------ register decode

\* struct.pack('>H', read): the word's bytes, high byte first.
PackBE(read) == <<read \div 256, read % 256>>

\* struct.unpack('<H', b)[0]: the first byte is the low one.
UnpackLE(b) == b[1] + 256 * b[2]

SwappedAsIs(read) == read

Swapped(read) == UnpackLE(PackBE(read))

\* Line 211: the statement ends in a comma, so the value assigned is the
\* 1-tuple (swapped * 1.25 / 1000 / 16,).
VoltageOf(read) ==
    PyTuple1(PyDiv(PyDiv(PyMul(PyInt(Swapped(read)), PyFloat(125, 100)),
                         PyInt(1000)), PyInt(16)))

\* Line 215.
CapacityOf(read) == PyDiv(PyInt(Swapped(read)), PyInt(256))

\* FieldData(): the reader's .data before any read.
FieldData == [voltage |-> PyBool(FALSE), capacity |-> PyNone]

\* UPSHandler.SensorData(): the handler's cache before any read.
SensorData == [voltage |-> PyNone, capacity |-> PyNone]

\* ------------------------------------------------------------------- state

VARIABLES
    monitored,      \* config[CONF_MONITORED_CONDITIONS]
    pc,             \* each thread's position
    site,           \* the get_sensor_data call a thread is in
    rd,             \* get_sensor_data's local `read`, per thread
    calls,          \* get_sensor_data calls each thread has issued
    data,           \* UPS.data (one FieldData, shared by every call)
    sensor_data,    \* UPSHandler.sensor_data (the cached Reading)
    sensor_handler, \* what _setup_UPS handed to async_setup_platform
    dev,            \* the entities given to async_add_entities
    state,          \* UPSSensor._state per entity
    result,         \* how each entity's last async_update ended
    logged,         \* _LOGGER.error messages
    events,         \* history: what the setup has done, in order
    pollFailed,     \* history: a bus read of the thread's current call failed
    dataSrc,        \* history: the call whose read produced each data field
    cacheSrc,       \* history: the call whose read produced each cached field
    word,           \* SpecDecode: the word the device answers with
    fd,             \* SpecDecode: the reader's FieldData
    decPc           \* SpecDecode: position in get_sensor_data

vars == <<monitored, pc, site, rd, calls, data, sensor_data, sensor_handler,
          dev, state, result, logged, events, pollFailed, dataSrc, cacheSrc,
          word, fd, decPc>>

sysVars == <<monitored, pc, site, rd, calls, data, sensor_data, sensor_handler,
             dev, state, result, logged, events, pollFailed, dataSrc, cacheSrc>>

decVars == <<word, fd, decPc>>

NoCall == <<"none", 0>>

InitSys ==
    /\ monitored \in SUBSET SENSOR_TYPES
    /\ pc = [t \in Threads |-> IF t = "setup" THEN "start" ELSE "idle"]
    /\ site = [t \in Threads |-> "none"]
    /\ rd = [t \in Threads |-> 0]
    /\ calls = [t \in Threads |-> 0]
    /\ data = FieldData
    /\ sensor_data = SensorData
    /\ sensor_handler = "unset"
    /\ dev = {}
    /\ state = [e \in SENSOR_TYPES |-> PyNone]
    /\ result = [e \in SENSOR_TYPES |-> "none"]
    /\ logged = <<>>
    /\ events = <<>>
    /\ pollFailed = [t \in Threads |-> FALSE]
    /\ dataSrc = [voltage |-> NoCall, capacity |-> NoCall]
    /\ cacheSrc = [voltage |-> NoCall, capacity |-> NoCall]

Init ==
    /\ InitSys
    /\ word = 0
    /\ fd = FieldData
    /\ decPc = "off"

\* ------------------------------------------------------------------- setup

\* A thread enters get_sensor_data from call site s.
CallReader(t, s) ==
    /\ pc' = [pc EXCEPT ![t] = "read2"]
    /\ site' = [site EXCEPT ![t] = s]
    /\ calls' = [calls EXCEPT ![t] = @ + 1]
    /\ pollFailed' = [pollFailed EXCEPT ![t] = FALSE]

\* Lines 52, 74-76: the executor job opens the bus and constructs UPS, whose
\* __init__ calls get_sensor_data (line 202).  SMBus() failing is caught at
\* line 78: logged, None returned, async_setup_platform returns at line 54.
OpenBus ==
    /\ pc["setup"] = "start"
    /\ \E ok \in BOOLEAN :
        IF ok
        THEN /\ CallReader("setup", "ctor")
             /\ events' = events \o <<"open", "ctor_read">>
             /\ UNCHANGED <<logged, sensor_handler>>
        ELSE /\ pc' = [pc EXCEPT !["setup"] = "done"]
             /\ events' = events \o <<"open_failed">>
             /\ logged' = Append(logged, "UPS sensor not detected")
             /\ sensor_handler' = "None"
             /\ UNCHANGED <<site, calls, pollFailed>>
    /\ UNCHANGED <<monitored, rd, data, sensor_data, dev, state, result,
                   dataSrc, cacheSrc, decVars>>

\* An IOError raised by read_word_data, swallowed instead of propagated, the
\* call treated as a success.
SwallowIOError(t) ==
    /\ pollFailed' = [pollFailed EXCEPT ![t] = TRUE]
    /\ pc' = [pc EXCEPT ![t] = "copyV"]
    /\ events' = IF t = "setup" THEN Append(events, site[t] \o "_failed")
                 ELSE events
    /\ UNCHANGED <<logged, sensor_handler, result>>

\* An IOError raised by read_word_data leaves get_sensor_data, which has no
\* handler for it.  In UPS.__init__ (line 202) it is inside _setup_UPS's try
\* and caught at line 78: logged, None returned, async_setup_platform returns
\* at line 54.  In UPSHandler.update (lines 114, 115) nothing catches it:
\* called from line 82 it leaves _setup_UPS and async_setup_platform; called
\* from an entity's executor job it is re-raised by the await at line 168 and
\* leaves async_update before lines 169-172.
RaiseIOError(t) ==
    /\ pollFailed' = [pollFailed EXCEPT ![t] = TRUE]
    /\ IF t = "setup"
       THEN /\ pc' = [pc EXCEPT ![t] = "done"]
            /\ events' = Append(events, site[t] \o "_failed")
            /\ IF site[t] = "ctor"
               THEN /\ logged' = Append(logged, "UPS sensor not detected")
                    /\ sensor_handler' = "None"
               ELSE /\ logged' = logged
                    /\ sensor_handler' = "raised"
            /\ UNCHANGED result
       ELSE /\ pc' = [pc EXCEPT ![t] = "idle"]
            /\ result' = [result EXCEPT ![t] = "IOError"]
            /\ UNCHANGED <<events, logged, sensor_handler>>

\* Lines 209 and 213: read_word_data(i2c_addr, 2 or 4) answers with a word
\* or raises.
BusRead(t) ==
    /\ pc[t] \in {"read2", "read4"}
    /\ \/ \E w \in RawWords :
            /\ rd' = [rd EXCEPT ![t] = w]
            /\ pc' = [pc EXCEPT ![t] = IF pc[t] = "read2" THEN "store2" ELSE "store4"]
            /\ UNCHANGED <<pollFailed, events, logged, sensor_handler, result>>
       \/ /\ RaiseIOError(t)
          /\ UNCHANGED rd
    /\ UNCHANGED <<monitored, site, calls, data, sensor_data, dev, state,
                   dataSrc, cacheSrc, decVars>>

\* Lines 210-211.
StoreVoltage(t) ==
    /\ pc[t] = "store2"
    /\ data' = [data EXCEPT !.voltage = VoltageOf(rd[t])]
    /\ dataSrc' = [dataSrc EXCEPT !.voltage = <<t, calls[t]>>]
    /\ pc' = [pc EXCEPT ![t] = "read4"]
    /\ UNCHANGED <<monitored, site, rd, calls, sensor_data, sensor_handler, dev,
                   state, result, logged, events, pollFailed, cacheSrc, decVars>>

\* Lines 214-217, and where the caller goes with the True returned: UPS.__init__
\* returns into _setup_UPS, which constructs the handler (line 82), whose
\* __init__ calls update(first_read=True): line 114, then line 115.  After
\* line 115 the `if` is taken.
StoreCapacity(t) ==
    /\ pc[t] = "store4"
    /\ data' = [data EXCEPT !.capacity = CapacityOf(rd[t])]
    /\ dataSrc' = [dataSrc EXCEPT !.capacity = <<t, calls[t]>>]
    /\ CASE site[t] = "ctor" ->
                /\ CallReader(t, "throwaway")
                /\ events' = Append(events, "throwaway_read")
         [] site[t] = "throwaway" ->
                /\ CallReader(t, "real")
                /\ events' = Append(events, "real_read")
         [] OTHER ->
                /\ pc' = [pc EXCEPT ![t] = "copyV"]
                /\ UNCHANGED <<site, calls, pollFailed, events>>
    /\ UNCHANGED <<monitored, rd, sensor_data, sensor_handler, dev, state,
                   result, logged, cacheSrc, decVars>>

\* Line 116.
CopyVoltage(t) ==
    /\ pc[t] = "copyV"
    /\ sensor_data' = [sensor_data EXCEPT !.voltage = data.voltage]
    /\ cacheSrc' = [cacheSrc EXCEPT !.voltage = dataSrc.voltage]
    /\ pc' = [pc EXCEPT ![t] = "copyC"]
    /\ UNCHANGED <<monitored, site, rd, calls, data, sensor_handler, dev, state,
                   result, logged, events, pollFailed, dataSrc, decVars>>

\* Line 117; update returns: to line 84 in the setup, to the await of line 168
\* in an entity.
CopyCapacity(t) ==
    /\ pc[t] = "copyC"
    /\ sensor_data' = [sensor_data EXCEPT !.capacity = data.capacity]
    /\ cacheSrc' = [cacheSrc EXCEPT !.capacity = dataSrc.capacity]
    /\ pc' = [pc EXCEPT ![t] = IF t = "setup" THEN "sleep" ELSE "round"]
    /\ UNCHANGED <<monitored, site, rd, calls, data, sensor_handler, dev, state,
                   result, logged, events, pollFailed, dataSrc, decVars>>

\* Line 84.
Sleep ==
    /\ pc["setup"] = "sleep"
    /\ pc' = [pc EXCEPT !["setup"] = "check"]
    /\ events' = Append(events, "sleep")
    /\ UNCHANGED <<monitored, site, rd, calls, data, sensor_data, sensor_handler,
                   dev, state, result, logged, pollFailed, dataSrc, cacheSrc,
                   decVars>>

\* Line 85.
FailedToInitialize(v) == ~Truthy(v)

\* Lines 85-89, then lines 53-65 of async_setup_platform.
FinishSetup ==
    /\ pc["setup"] = "check"
    /\ pc' = [pc EXCEPT !["setup"] = "done"]
    /\ IF FailedToInitialize(sensor_data.voltage)
       THEN /\ logged' = Append(logged, "UPS sensor failed to Initialize")
            /\ sensor_handler' = "None"
            /\ dev' = {}
       ELSE /\ logged' = logged
            /\ sensor_handler' = "handler"
            /\ dev' = monitored
    /\ UNCHANGED <<monitored, site, rd, calls, data, sensor_data, state, result,
                   events, pollFailed, dataSrc, cacheSrc, decVars>>

\* ----------------------------------------------------------------- entities

\* Line 168: the platform polls entity e; its async_update hands
\* UPS_client.update to an executor worker, which enters line 115.  Nothing
\* in the module keeps the other entity's job from running at the same time.
StartUpdate(e) ==
    /\ e \in dev
    /\ pc[e] = "idle"
    /\ calls[e] < MaxPolls
    /\ CallReader(e, "poll")
    /\ UNCHANGED <<monitored, rd, data, sensor_data, sensor_handler, dev, state,
                   result, logged, events, dataSrc, cacheSrc, decVars>>

\* Lines 170 and 172: what round() is applied to and how.
Rounded(e) ==
    IF e = SENSOR_VOLTAGE THEN PyRound2(sensor_data.voltage)
    ELSE PyRound(sensor_data.capacity)

\* Lines 169-172, back on the event loop; a TypeError from round() leaves
\* async_update with _state not assigned.
Round(e) ==
    /\ pc[e] = "round"
    /\ pc' = [pc EXCEPT ![e] = "idle"]
    /\ IF Rounded(e) = PyTypeError
       THEN /\ result' = [result EXCEPT ![e] = "TypeError"]
            /\ UNCHANGED state
       ELSE /\ result' = [result EXCEPT ![e] = "ok"]
            /\ state' = [state EXCEPT ![e] = Rounded(e)]
    /\ UNCHANGED <<monitored, site, rd, calls, data, sensor_data, sensor_handler,
                   dev, logged, events, pollFailed, dataSrc, cacheSrc, decVars>>

Next ==
    \/ OpenBus
    \/ \E t \in Threads : BusRead(t)
    \/ \E t \in Threads : StoreVoltage(t)
    \/ \E t \in Threads : StoreCapacity(t)
    \/ \E t \in Threads : CopyVoltage(t)
    \/ \E t \in Threads : CopyCapacity(t)
    \/ Sleep
    \/ FinishSetup
    \/ \E e \in SENSOR_TYPES : StartUpdate(e)
    \/ \E e \in SENSOR_TYPES : Round(e)

Spec == Init /\ [][Next]_vars

\* ------------------------------------------------- get_sensor_data, any word

\* One call of get_sensor_data on a fresh reader whose device answers both
\* reads with `word`, for every 16-bit word.
InitDecode ==
    /\ InitSys
    /\ monitored = SENSOR_TYPES
    /\ word \in 0..MaxWord
    /\ fd = FieldData
    /\ decPc = "read2"

\* Lines 209-211.
DecodeVoltage ==
    /\ decPc = "read2"
    /\ fd' = [fd EXCEPT !.voltage = VoltageOf(word)]
    /\ decPc' = "read4"
    /\ UNCHANGED <<word, sysVars>>

\* Lines 213-217.
DecodeCapacity ==
    /\ decPc = "read4"
    /\ fd' = [fd EXCEPT !.capacity = CapacityOf(word)]
    /\ decPc' = "done"
    /\ UNCHANGED <<word, sysVars>>

NextDecode == DecodeVoltage \/ DecodeCapacity

SpecDecode == InitDecode /\ [][NextDecode]_vars

\* ------------------------------------------------------------------ claims

\* The positions inside get_sensor_data.
ReaderPcs == {"read2", "store2", "read4", "store4"}

\* The positions of a poll: get_sensor_data and update's two assignments.
PollPcs == ReaderPcs \cup {"copyV", "copyC"}

\* The byte exchange as the specification writes it.
ClaimSwap(r) == (r % 256) * 256 + (r \div 256)

SetupFailures == {"open_failed", "ctor_failed", "throwaway_failed", "real_failed"}

Happened(ev) == \E i \in 1..Len(events) : events[i] = ev

\* C1 (staleness): no step of an entity's poll that is inside the register
\* reader, and no step of a poll one of whose bus reads has failed, changes
\* the handler's cached Reading or any entity's exposed state: a failed poll
\* leaves the cache and what the accessors return as they were.
C1_FailedPollKeepsCache ==
    [][\A e \in SENSOR_TYPES :
          (pc'[e] # pc[e] /\ (pollFailed'[e] \/ pc[e] \in ReaderPcs))
              => (sensor_data' = sensor_data /\ state' = state)]_vars

\* A capacity poll failed at its second read, after the reader had stored a
\* voltage differing from the cached one, with a capacity already exposed.
C1_Witness ==
    /\ sensor_handler = "handler"
    /\ pollFailed[SENSOR_CAPACITY]
    /\ pc[SENSOR_CAPACITY] = "idle"
    /\ state[SENSOR_CAPACITY].type = "int"
    /\ dataSrc.voltage = <<SENSOR_CAPACITY, calls[SENSOR_CAPACITY]>>
    /\ data.voltage # sensor_data.voltage

\* C2 (atomic Reading): after setup, whenever no poll is between its two
\* assignments to the cache, the cached voltage and the cached capacity were
\* read by one and the same call of the register reader.
C2_AtomicReading ==
    (sensor_handler = "handler" /\ \A t \in Threads : pc[t] # "copyC")
        => cacheSrc.voltage = cacheSrc.capacity

\* C3 (voltage decode): once the voltage is stored, it is the number
\* swap(word) * 1.25 / 1000 / 16.
C3_VoltageDecode ==
    decPc \in {"read4", "done"}
        => fd.voltage = PyFloat(ClaimSwap(word) * 125, 100 * 1000 * 16)

\* C4 (capacity decode): once the capacity is stored, it is the number
\* swap(word) / 256, whatever its size.
C4_CapacityDecode ==
    decPc = "done" => fd.capacity = PyFloat(ClaimSwap(word), 256)

\* A capacity above 100 has been stored.
C4_Witness ==
    /\ decPc = "done"
    /\ fd.capacity.type = "float"
    /\ fd.capacity.num > 100 * fd.capacity.den

\* C5 (rounding): the step that ends an entity's update after a successful
\* poll leaves the voltage entity's state the cached voltage rounded to two
\* decimals, and the capacity entity's state the integer nearest to the
\* cached capacity.
C5_Rounding ==
    [][\A e \in SENSOR_TYPES :
          (pc[e] = "round" /\ pc'[e] = "idle")
              => IF e = SENSOR_VOLTAGE
                 THEN /\ state'[e].type = "float"
                      /\ state'[e] = PyRound2(sensor_data.voltage)
                 ELSE /\ state'[e].type = "int"
                      /\ state'[e] = PyRound(sensor_data.capacity)]_vars

\* C6 (no voltage at initialization): once the first real read of the setup
\* has failed to give a voltage, the cache holds none, the setup is over with
\* nothing after that read, no handler was returned and no entity exists.
C6_NoVoltageFailsSetup ==
    Happened("real_failed")
        => /\ sensor_data.voltage = PyNone
           /\ pc["setup"] = "done"
           /\ events[Len(events)] = "real_failed"
           /\ sensor_handler # "handler"
           /\ dev = {}
           /\ \A e \in SENSOR_TYPES : pc[e] = "idle" /\ calls[e] = 0

\* The first real read failed with both conditions monitored.
C6_Witness ==
    /\ Happened("real_failed")
    /\ monitored = SENSOR_TYPES
    /\ pc["setup"] = "done"

\* C7 (bus failure at initialization): a setup that ended on a bus failure,
\* at whichever step, has logged it, registered no entity, and has done
\* nothing after the failure.
C7_SetupFailureLogged ==
    (pc["setup"] = "done" /\ \E ev \in SetupFailures : Happened(ev))
        => /\ Len(logged) > 0
           /\ dev = {}
           /\ events[Len(events)] \in SetupFailures

\* C8 (silent poll failure): an entity update whose poll failed has ended
\* normally.
C8_SilentPollFailure ==
    \A e \in SENSOR_TYPES :
        (pollFailed[e] /\ pc[e] = "idle") => result[e] = "ok"

\* C9 (initialization order): the handler issues one throwaway read, and its
\* first real read only after the settle delay.
C9_InitOrder ==
    \A i \in 1..Len(events) :
        events[i] = "real_read"
            => /\ \E j \in 1..(i - 1) : events[j] = "sleep"
               /\ Cardinality({j \in 1..(i - 1) : events[j] = "throwaway_read"}) = 1

\* C10 (sequential bus access, single writer): at most one poll is in
\* progress at any time.
C10_OnePollAtATime ==
    Cardinality({t \in Threads : pc[t] \in PollPcs}) <= 1

====
